---- MODULE Spec2Model ----
(***************************************************************************)
(* Boundary-tag heap of os/mm/mm_heap and its corruption checker           *)
(* mm_check_heap_corruption().                                             *)
(*                                                                         *)
(* Memory is an array of cells of two machine words.  One cell is the size *)
(* of struct mm_allocnode_s (size, preceding); a free node additionally    *)
(* keeps flink and blink in the cell that follows its header, where an     *)
(* allocated node has the first words of its payload.  Addresses and sizes *)
(* are counted in cells; address 0 is NULL.                                *)
(*                                                                         *)
(* The checker is modelled with CONFIG_KMM_REGIONS > 1, CONFIG_BUILD_FLAT  *)
(* and without CONFIG_DEBUG_MM_HEAPINFO.                                   *)
(*                                                                         *)
(* The module also models select() of os/fs/vfs/fs_select.c and the        *)
(* interrupt enable and disable of os/arch/arm/src/tiva/tiva_irq.c; each   *)
(* of the three has its own specification, which leaves the variables of   *)
(* the other two alone.                                                    *)
(***************************************************************************)
EXTENDS Integers, Sequences, FiniteSets, TLC

VARIABLES mem,      \* heap memory: cell address -> <<word 0, word 1>>
          sem,      \* heap lock: [holder, counts]
          mut,      \* the allocator call in progress (malloc or free)
          fault,    \* the overwritten word of the fault injection, if any
          chk,      \* mm_check_heap_corruption: locals, position, result
          report,   \* the calls of dump_node made by the checker call
          msg,      \* which of the four error texts the call printed
          obs,      \* bookkeeping about the checker call in progress
          sel,      \* select(): arguments, locals, position, result
          pollset,  \* select(): the pollfd array it allocates
          errno,    \* the errno of the task that calls select()
          nvic,     \* interrupt controller: the enable state of each register
          irqcall   \* up_enable_irq / up_disable_irq: the last call and its writes

heapvars == <<mem, sem, mut, fault, chk, report, msg, obs>>

selvars == <<sel, pollset, errno>>

irqvars == <<nvic, irqcall>>

vars == <<mem, sem, mut, fault, chk, report, msg, obs, sel, pollset, errno, nvic, irqcall>>

------------------------------------------------------------------------------
(* Sizes of the model *)

RegionCells == 6

(* the bit of the preceding word that marks the node allocated; the word is *)
(* 2 * MM_ALLOC_BIT wide                                                    *)
MM_ALLOC_BIT == 16

WordMod == 2 * MM_ALLOC_BIT

Words == 0 .. (WordMod - 1)

NULL == 0

mm_nregions == 2

Regions == 0 .. (mm_nregions - 1)

(* the dummy free node heading the free list lives in struct mm_heap_s *)
mm_nodelist == 1

RegionSize(r) == RegionCells - 2 * r

RECURSIVE RegionBase(_)
RegionBase(r) == IF r = 0 THEN mm_nodelist + 2 ELSE RegionBase(r - 1) + RegionSize(r - 1)

mm_heapstart(r) == RegionBase(r)

mm_heapend(r) == RegionBase(r) + RegionSize(r) - 1

MemTop == mm_heapend(mm_nregions - 1)

Cells == 1 .. MemTop

HeapCells == (mm_nodelist + 2) .. MemTop

(* the words a fault injection can overwrite: the regions and the links of  *)
(* the free list's head                                                     *)
FaultCells == HeapCells \cup {mm_nodelist + 1}

SIZEOF_MM_ALLOCNODE == 1

SIZEOF_MM_FREENODE == 2

Add(a, n) == (a + n) % WordMod

------------------------------------------------------------------------------
(* Contexts and the heap lock *)

Tasks == {"t1", "t2"}

CHK == "chk"

NOHOLDER == "none"

mm_cantake(s, t) == s.holder = NOHOLDER \/ s.holder = t

mm_takesemaphore(s, t) ==
    IF s.holder = t THEN [s EXCEPT !.counts = @ + 1]
    ELSE [holder |-> t, counts |-> 1]

mm_givesemaphore(s, t) ==
    IF s.holder # t THEN s
    ELSE IF s.counts > 1 THEN [s EXCEPT !.counts = @ - 1]
    ELSE [holder |-> NOHOLDER, counts |-> 0]

------------------------------------------------------------------------------
(* Node fields, as the allocator reads and writes them *)

W0(m, a) == m[a][1]

W1(m, a) == m[a][2]

SetW0(m, a, v) == [m EXCEPT ![a] = <<v % WordMod, @[2]>>]

SetW1(m, a, v) == [m EXCEPT ![a] = <<@[1], v % WordMod>>]

NSize(m, a) == W0(m, a)

NPrec(m, a) == W1(m, a)

NFlink(m, a) == W0(m, a + 1)

NBlink(m, a) == W1(m, a + 1)

NPrevSize(m, a) == NPrec(m, a) % MM_ALLOC_BIT

NAllocBit(m, a) == (NPrec(m, a) \div MM_ALLOC_BIT) * MM_ALLOC_BIT

NIsFree(m, a) == NAllocBit(m, a) = 0

(* Cells that stop being a header (payload of an allocated chunk, inside of  *)
(* a merged free chunk) hold user data, which the model keeps at zero.       *)
Scrub(m, a) == [m EXCEPT ![a] = <<0, 0>>]

(* unlink a free node from the free list *)
mm_unlink(m, n) ==
    LET f == NFlink(m, n)
        b == NBlink(m, n)
        m1 == SetW0(m, b + 1, f)
    IN  IF f # NULL THEN SetW1(m1, f + 1, b) ELSE m1

(* the node of the size-ordered free list after which a chunk of size sz goes *)
RECURSIVE mm_findslot(_, _, _, _)
mm_findslot(m, prev, sz, fuel) ==
    LET next == NFlink(m, prev)
    IN  IF fuel = 0 \/ next = NULL \/ NSize(m, next) = 0 \/ NSize(m, next) >= sz
        THEN prev
        ELSE mm_findslot(m, next, sz, fuel - 1)

mm_addfreechunk(m, n) ==
    LET prev == mm_findslot(m, mm_nodelist, NSize(m, n), MemTop)
        next == NFlink(m, prev)
        m1 == SetW0(SetW1(m, n + 1, prev), n + 1, next)
        m2 == SetW0(m1, prev + 1, n)
    IN  IF next # NULL THEN SetW1(m2, next + 1, n) ELSE m2

(* first fit: the first node of the free list that holds sz cells, or NULL *)
RECURSIVE mm_findfit(_, _, _, _)
mm_findfit(m, n, sz, fuel) ==
    IF n = NULL \/ fuel = 0 THEN NULL
    ELSE IF NSize(m, n) >= sz THEN n
    ELSE mm_findfit(m, NFlink(m, n), sz, fuel - 1)

------------------------------------------------------------------------------
(* Heap initialisation: per region a head sentinel, one free node, a tail  *)
(* sentinel; the free node is put on the free list.                        *)

mm_addregion(m, r) ==
    LET hs == mm_heapstart(r)
        he == mm_heapend(r)
        fn == hs + SIZEOF_MM_ALLOCNODE
        fs == RegionSize(r) - 2 * SIZEOF_MM_ALLOCNODE
        m1 == [m EXCEPT ![hs] = <<SIZEOF_MM_ALLOCNODE, MM_ALLOC_BIT>>,
                        ![fn] = <<fs, SIZEOF_MM_ALLOCNODE>>,
                        ![he] = <<SIZEOF_MM_ALLOCNODE, MM_ALLOC_BIT + fs>>]
    IN  mm_addfreechunk(m1, fn)

RECURSIVE mm_initialize(_, _)
mm_initialize(m, r) ==
    IF r = mm_nregions THEN m ELSE mm_initialize(mm_addregion(m, r), r + 1)

InitMem == mm_initialize([a \in Cells |-> <<0, 0>>], 0)

(* the allocated chunks of region r, found by walking it *)
RECURSIVE AllocatedFrom(_, _, _, _)
AllocatedFrom(m, r, n, fuel) ==
    IF fuel = 0 \/ n >= mm_heapend(r) \/ NSize(m, n) = 0 THEN {}
    ELSE (IF ~NIsFree(m, n) /\ n # mm_heapstart(r) THEN {n} ELSE {})
         \cup AllocatedFrom(m, r, n + NSize(m, n), fuel - 1)

Allocated(m) == UNION {AllocatedFrom(m, r, mm_heapstart(r), RegionCells) : r \in Regions}

------------------------------------------------------------------------------
(* The allocator: malloc and free, each a sequence of writes under the lock *)

MutIdle == [pc |-> "idle", task |-> NOHOLDER, node |-> NULL, size |-> 0]

NoFault == [addr |-> NULL, word |-> 0, val |-> 0, old |-> 0]

(* a write to heap memory; a checker call in progress has then seen the heap change *)
Store(m) ==
    /\ mem' = m
    /\ obs' = [obs EXCEPT !.dirty = @ \/ chk.pc # "idle"]

MutMayRun == chk.pc \notin {"done", "fault"} /\ fault = NoFault

ChunkSizes == SIZEOF_MM_FREENODE .. (RegionCells - 2 * SIZEOF_MM_ALLOCNODE)

MallocTake(t, sz) ==
    /\ MutMayRun /\ mut.pc = "idle"
    /\ mm_cantake(sem, t)
    /\ sem' = mm_takesemaphore(sem, t)
    /\ mut' = [pc |-> "m_search", task |-> t, node |-> NULL, size |-> sz]
    /\ UNCHANGED <<mem, fault, chk, report, msg, obs>>
    /\ UNCHANGED <<selvars, irqvars>>

MallocSearch ==
    /\ MutMayRun /\ mut.pc = "m_search"
    /\ LET n == mm_findfit(mem, NFlink(mem, mm_nodelist), mut.size, MemTop)
       IN  IF n = NULL
           THEN /\ sem' = mm_givesemaphore(sem, mut.task)
                /\ mut' = MutIdle
                /\ UNCHANGED <<mem, obs>>
           ELSE /\ Store(mm_unlink(mem, n))
                /\ mut' = [mut EXCEPT !.pc = "m_split", !.node = n]
                /\ UNCHANGED sem
    /\ UNCHANGED <<fault, chk, report, msg>>
    /\ UNCHANGED <<selvars, irqvars>>

MallocSplit ==
    /\ MutMayRun /\ mut.pc = "m_split"
    /\ LET node == mut.node
           remaining == NSize(mem, node) - mut.size
           remainder == node + mut.size
       IN  IF remaining >= SIZEOF_MM_FREENODE
           THEN /\ Store(SetW0([mem EXCEPT ![remainder] = <<remaining, mut.size>>],
                               node, mut.size))
                /\ mut' = [mut EXCEPT !.pc = "m_next"]
           ELSE /\ mut' = [mut EXCEPT !.pc = "m_mark"]
                /\ UNCHANGED <<mem, obs>>
    /\ UNCHANGED <<sem, fault, chk, report, msg>>
    /\ UNCHANGED <<selvars, irqvars>>

MallocFixNext ==
    /\ MutMayRun /\ mut.pc = "m_next"
    /\ LET remainder == mut.node + NSize(mem, mut.node)
           next == remainder + NSize(mem, remainder)
           m1 == SetW1(mem, next, NSize(mem, remainder) + NAllocBit(mem, next))
       IN  Store(mm_addfreechunk(m1, remainder))
    /\ mut' = [mut EXCEPT !.pc = "m_mark"]
    /\ UNCHANGED <<sem, fault, chk, report, msg>>
    /\ UNCHANGED <<selvars, irqvars>>

MallocMark ==
    /\ MutMayRun /\ mut.pc = "m_mark"
    /\ Store(Scrub(SetW1(mem, mut.node, NPrevSize(mem, mut.node) + MM_ALLOC_BIT),
                   mut.node + 1))
    /\ sem' = mm_givesemaphore(sem, mut.task)
    /\ mut' = MutIdle
    /\ UNCHANGED <<fault, chk, report, msg>>
    /\ UNCHANGED <<selvars, irqvars>>

FreeTake(t, n) ==
    /\ MutMayRun /\ mut.pc = "idle"
    /\ n \in Allocated(mem)
    /\ mm_cantake(sem, t)
    /\ sem' = mm_takesemaphore(sem, t)
    /\ mut' = [pc |-> "f_clear", task |-> t, node |-> n, size |-> 0]
    /\ UNCHANGED <<mem, fault, chk, report, msg, obs>>
    /\ UNCHANGED <<selvars, irqvars>>

FreeClear ==
    /\ MutMayRun /\ mut.pc = "f_clear"
    /\ Store(SetW1(mem, mut.node, NPrevSize(mem, mut.node)))
    /\ mut' = [mut EXCEPT !.pc = "f_next"]
    /\ UNCHANGED <<sem, fault, chk, report, msg>>
    /\ UNCHANGED <<selvars, irqvars>>

(* mutant of FreeMergeNext: the merged node keeps its old size *)
FreeMergeNext_KeepsSize ==
    /\ MutMayRun /\ mut.pc = "f_next"
    /\ LET node == mut.node
           next == node + NSize(mem, node)
           andbeyond == next + NSize(mem, next)
           total == NSize(mem, node) + NSize(mem, next)
           m1 == Scrub(Scrub(mm_unlink(mem, next), next), next + 1)
           m3 == SetW1(m1, andbeyond, total + NAllocBit(mem, andbeyond))
       IN  IF NIsFree(mem, next)
           THEN Store(m3)
           ELSE UNCHANGED <<mem, obs>>
    /\ mut' = [mut EXCEPT !.pc = "f_prev"]
    /\ UNCHANGED <<sem, fault, chk, report, msg>>
    /\ UNCHANGED <<selvars, irqvars>>

(* mutant of FreeMergeNext: a free successor is not merged *)
FreeMergeNext_Skipped ==
    /\ MutMayRun /\ mut.pc = "f_next"
    /\ mut' = [mut EXCEPT !.pc = "f_prev"]
    /\ UNCHANGED <<mem, obs, sem, fault, chk, report, msg>>
    /\ UNCHANGED <<selvars, irqvars>>

(* merge with the following node when it is free *)
FreeMergeNext ==
    /\ MutMayRun /\ mut.pc = "f_next"
    /\ LET node == mut.node
           next == node + NSize(mem, node)
           andbeyond == next + NSize(mem, next)
           total == NSize(mem, node) + NSize(mem, next)
           m1 == Scrub(Scrub(mm_unlink(mem, next), next), next + 1)
           m2 == SetW0(m1, node, total)
           m3 == SetW1(m2, andbeyond, total + NAllocBit(mem, andbeyond))
       IN  IF NIsFree(mem, next)
           THEN Store(m3)
           ELSE UNCHANGED <<mem, obs>>
    /\ mut' = [mut EXCEPT !.pc = "f_prev"]
    /\ UNCHANGED <<sem, fault, chk, report, msg>>
    /\ UNCHANGED <<selvars, irqvars>>

(* merge into the preceding node when it is free *)
FreeMergePrev ==
    /\ MutMayRun /\ mut.pc = "f_prev"
    /\ LET node == mut.node
           next == node + NSize(mem, node)
           prev == node - NPrevSize(mem, node)
           total == NSize(mem, prev) + NSize(mem, node)
           m1 == Scrub(mm_unlink(mem, prev), node)
           m2 == SetW0(m1, prev, total)
           m3 == SetW1(m2, next, total + NAllocBit(mem, next))
       IN  IF NIsFree(mem, prev)
           THEN /\ Store(m3)
                /\ mut' = [mut EXCEPT !.pc = "f_add", !.node = prev]
           ELSE /\ UNCHANGED <<mem, obs>>
                /\ mut' = [mut EXCEPT !.pc = "f_add"]
    /\ UNCHANGED <<sem, fault, chk, report, msg>>
    /\ UNCHANGED <<selvars, irqvars>>

FreeAdd ==
    /\ MutMayRun /\ mut.pc = "f_add"
    /\ Store(mm_addfreechunk(mem, mut.node))
    /\ sem' = mm_givesemaphore(sem, mut.task)
    /\ mut' = MutIdle
    /\ UNCHANGED <<fault, chk, report, msg>>
    /\ UNCHANGED <<selvars, irqvars>>

(* Fault injection: some word of a quiescent heap is overwritten with any  *)
(* other word.                                                             *)
Corrupt(a, i, v) ==
    /\ fault = NoFault /\ mut.pc = "idle" /\ chk.pc = "idle"
    /\ mem[a][i] # v
    /\ mem' = [mem EXCEPT ![a][i] = v]
    /\ fault' = [addr |-> a, word |-> i, val |-> v, old |-> mem[a][i]]
    /\ UNCHANGED <<sem, mut, chk, report, msg, obs>>
    /\ UNCHANGED <<selvars, irqvars>>

------------------------------------------------------------------------------
(* mm_check_heap_corruption                                                *)
(*                                                                         *)
(* A read of an address outside the memory is undefined: it faults, or it  *)
(* yields some word w.                                                     *)

TYPE_CORRUPTED == "CORRUPTED"

TYPE_OVERFLOWED == "OVERFLOWED"

OK == 0

ERROR == -1

ChkIdle == [pc |-> "idle", irq |-> FALSE, region |-> 0,
            prev |-> NULL, node |-> NULL, next |-> NULL, result |-> OK]

ObsIdle == [dirty |-> FALSE, ub |-> FALSE, unlocked |-> FALSE, takes |-> 0, gives |-> 0]

Rd(a, i, w) == IF a \in Cells THEN mem[a][i] ELSE w

Size(a, w) == Rd(a, 1, w)

Preceding(a, w) == Rd(a, 2, w)

Flink(a, w) == Rd(Add(a, 1), 1, w)

Blink(a, w) == Rd(Add(a, 1), 2, w)

MM_PREV_NODE_SIZE(a, w) == Preceding(a, w) % MM_ALLOC_BIT

IS_ALLOCATED_NODE(a, w) == (Preceding(a, w) \div MM_ALLOC_BIT) % 2 = 1

IS_FREE_NODE(a, w) == ~IS_ALLOCATED_NODE(a, w)

(* mutants of up_interrupt_context: the context is never asked *)
up_interrupt_context_Never == FALSE

up_interrupt_context_Always == TRUE

up_interrupt_context == chk.irq

(* the four tests of the loop body *)
BackMismatch(prev, node, w) == prev # NULL /\ Size(prev, w) # MM_PREV_NODE_SIZE(node, w)

(* mutant of FwdMismatch: the allocated bit of next->preceding is not masked *)
FwdMismatch_Unmasked(node, next, w) == Size(node, w) # Preceding(next, w)

(* mutant of FwdMismatch: the test against the successor is missing *)
FwdMismatch_Missing(node, next, w) == FALSE

FwdMismatch(node, next, w) == Size(node, w) # MM_PREV_NODE_SIZE(next, w)

(* mutant of BlinkMismatch: the backward link is not tested *)
BlinkMismatch_Missing(node, w) == FALSE

BlinkMismatch(node, w) == Blink(node, w) # NULL /\ Flink(Blink(node, w), w) # node

(* mutant of FlinkMismatch: the forward link is not tested *)
FlinkMismatch_Missing(node, w) == FALSE

FlinkMismatch(node, w) == Flink(node, w) # NULL /\ Blink(Flink(node, w), w) # node

(* mutant of Branch: flink is tested before blink *)
Branch_FlinkFirst(w) ==
    IF BackMismatch(chk.prev, chk.node, w) THEN "back"
    ELSE IF FwdMismatch(chk.node, chk.next, w) THEN "fwd"
    ELSE IF IS_FREE_NODE(chk.node, w)
         THEN IF FlinkMismatch(chk.node, w) THEN "flink"
              ELSE IF BlinkMismatch(chk.node, w) THEN "blink"
              ELSE "pass"
         ELSE "pass"

(* the branch the loop body takes for the current prev, node, next *)
Branch(w) ==
    IF BackMismatch(chk.prev, chk.node, w) THEN "back"
    ELSE IF FwdMismatch(chk.node, chk.next, w) THEN "fwd"
    ELSE IF IS_FREE_NODE(chk.node, w)
         THEN IF BlinkMismatch(chk.node, w) THEN "blink"
              ELSE IF FlinkMismatch(chk.node, w) THEN "flink"
              ELSE "pass"
         ELSE "pass"

(* the cells one pass through the loop body and its increment dereferences *)
Derefs(w) ==
    LET p == chk.prev
        n == chk.node
        x == chk.next
        b == Branch(w)
        back == IF p # NULL THEN {p, n} ELSE {}
        fwd == {n, x}
        bl == {Add(n, 1)} \cup
              (IF Blink(n, w) # NULL THEN {Add(Blink(n, w), 1)} ELSE {})
        fl == {Add(n, 1)} \cup
              (IF Flink(n, w) # NULL THEN {Add(Flink(n, w), 1)} ELSE {})
    IN  CASE b = "back" -> back
          [] b = "fwd" -> back \cup fwd \cup {p}
          [] b = "blink" -> back \cup fwd \cup bl \cup {p}
          [] b = "flink" -> back \cup fwd \cup bl \cup fl \cup {p}
          [] OTHER -> back \cup fwd
                      \cup (IF IS_FREE_NODE(n, w) THEN bl \cup fl ELSE {})

(* the words an undefined read may yield in this pass *)
Wild ==
    LET n == chk.node
        cand == {chk.node, chk.next, Add(n, 1)}
                \cup (IF chk.prev # NULL THEN {chk.prev} ELSE {})
                \cup (IF Add(n, 1) \in Cells
                      THEN {Add(c, 1) : c \in {mem[Add(n, 1)][1], mem[Add(n, 1)][2]} \ {NULL}}
                      ELSE {})
    IN  IF cand \subseteq Cells THEN {0} ELSE Words

InLoop == chk.pc = "loop" /\ chk.node < mm_heapend(chk.region)

Locked == sem.holder = CHK

(* what a pass records: reads without the lock, reads outside the memory *)
Observe(o, w) ==
    [o EXCEPT !.unlocked = @ \/ ~Locked,
              !.ub = @ \/ ~(Derefs(w) \subseteq Cells)]

(* mutant of GiveOnExit: the exit forgets to give the lock back *)
GiveOnExit_Forgotten == sem

(* the lock after the mm_givesemaphore of an exit from the walk *)
GiveOnExit == IF ~up_interrupt_context THEN mm_givesemaphore(sem, CHK) ELSE sem

GiveCount == IF ~up_interrupt_context THEN 1 ELSE 0

dump_node(node, type) == <<node, type>>

ChkCall(irq) ==
    /\ chk.pc = "idle"
    /\ chk' = [ChkIdle EXCEPT !.pc = "region", !.irq = irq]
    /\ report' = <<>>
    /\ msg' = "none"
    /\ obs' = ObsIdle
    /\ UNCHANGED <<mem, sem, mut, fault>>
    /\ UNCHANGED <<selvars, irqvars>>

(* lines 139-155: next region, take the lock, set up prev, node, next *)
ChkEnterRegion ==
    /\ chk.pc = "region" /\ chk.region < mm_nregions
    /\ up_interrupt_context \/ mm_cantake(sem, CHK)
    /\ sem' = IF ~up_interrupt_context THEN mm_takesemaphore(sem, CHK) ELSE sem
    /\ LET node == mm_heapstart(chk.region)
       IN  chk' = [chk EXCEPT !.pc = "loop", !.prev = NULL, !.node = node,
                              !.next = Add(node, Size(node, 0))]
    /\ obs' = [obs EXCEPT !.takes = @ + (IF ~up_interrupt_context THEN 1 ELSE 0),
                          !.unlocked = @ \/ up_interrupt_context]
    /\ UNCHANGED <<mem, mut, fault, report, msg>>
    /\ UNCHANGED <<selvars, irqvars>>

(* line 235 *)
ChkReturnOk ==
    /\ chk.pc = "region" /\ chk.region >= mm_nregions
    /\ chk' = [chk EXCEPT !.pc = "done", !.result = OK]
    /\ UNCHANGED <<mem, sem, mut, fault, report, msg, obs>>
    /\ UNCHANGED <<selvars, irqvars>>

(* line 157, condition false; lines 227-233 *)
ChkLeaveRegion ==
    /\ chk.pc = "loop" /\ ~(chk.node < mm_heapend(chk.region))
    /\ sem' = GiveOnExit
    /\ chk' = [chk EXCEPT !.pc = "region", !.region = @ + 1]
    /\ obs' = [obs EXCEPT !.gives = @ + GiveCount]
    /\ UNCHANGED <<mem, mut, fault, report, msg>>
    /\ UNCHANGED <<selvars, irqvars>>

(* mutant of ChkAdvance: MM_PREV_NODE_SIZE(next) written with &= instead of & *)
ChkAdvance_ClearsBit ==
    /\ chk.pc = "loop" /\ chk.node < mm_heapend(chk.region)
    /\ chk.next \in Cells
    /\ Size(chk.node, 0) = MM_PREV_NODE_SIZE(chk.next, 0)
    /\ mem' = SetW1(mem, chk.next, MM_PREV_NODE_SIZE(chk.next, 0))
    /\ chk' = [chk EXCEPT !.prev = chk.node, !.node = chk.next,
                          !.next = Add(chk.next, Size(chk.next, 0))]
    /\ UNCHANGED <<sem, mut, fault, report, msg, obs>>
    /\ UNCHANGED <<selvars, irqvars>>

(* line 157: all tests of the body pass; prev = node, node = next, next += next->size *)
ChkAdvance ==
    /\ InLoop
    /\ \E w \in Wild :
          /\ Branch(w) = "pass"
          /\ chk' = [chk EXCEPT !.prev = chk.node, !.node = chk.next,
                                !.next = Add(chk.next, Size(chk.next, w))]
          /\ obs' = Observe(obs, w)
    /\ UNCHANGED <<mem, sem, mut, fault, report, msg>>
    /\ UNCHANGED <<selvars, irqvars>>

(* mutant of Fail: the failure exit returns 0 *)
Fail_ReturnsOk(w, text, dumps) ==
    /\ chk' = [chk EXCEPT !.pc = "done", !.result = OK]
    /\ report' = dumps
    /\ msg' = text
    /\ sem' = IF ~chk.irq THEN mm_givesemaphore(sem, CHK) ELSE sem
    /\ obs' = [obs EXCEPT !.gives = @ + (IF ~chk.irq THEN 1 ELSE 0)]
    /\ UNCHANGED <<mem, mut, fault>>
    /\ UNCHANGED <<selvars, irqvars>>

Fail(w, text, dumps) ==
    /\ chk' = [chk EXCEPT !.pc = "done", !.result = ERROR]
    /\ report' = dumps
    /\ msg' = text
    /\ sem' = GiveOnExit
    /\ obs' = [Observe(obs, w) EXCEPT !.gives = @ + GiveCount]
    /\ UNCHANGED <<mem, mut, fault>>
    /\ UNCHANGED <<selvars, irqvars>>

(* lines 158-170 *)
ChkFailBack ==
    /\ InLoop
    /\ \E w \in Wild :
          /\ Branch(w) = "back"
          /\ Fail(w, "back", <<dump_node(chk.prev, TYPE_OVERFLOWED),
                               dump_node(chk.node, TYPE_CORRUPTED)>>)

(* lines 171-191 *)
ChkFailFwd ==
    /\ InLoop
    /\ \E w \in Wild :
          /\ Branch(w) = "fwd"
          /\ Fail(w, "fwd", <<dump_node(chk.prev, TYPE_OVERFLOWED),
                              dump_node(chk.node, TYPE_CORRUPTED),
                              dump_node(chk.node, TYPE_OVERFLOWED),
                              dump_node(chk.next, TYPE_CORRUPTED)>>)

(* lines 193-207 *)
ChkFailBlink ==
    /\ InLoop
    /\ \E w \in Wild :
          /\ Branch(w) = "blink"
          /\ Fail(w, "blink", <<dump_node(chk.prev, TYPE_OVERFLOWED),
                                dump_node(chk.node, TYPE_CORRUPTED)>>)

(* lines 208-222 *)
ChkFailFlink ==
    /\ InLoop
    /\ \E w \in Wild :
          /\ Branch(w) = "flink"
          /\ Fail(w, "flink", <<dump_node(chk.prev, TYPE_OVERFLOWED),
                                dump_node(chk.node, TYPE_CORRUPTED)>>)

(* a dereference outside the memory may fault instead of yielding a word *)
ChkFault ==
    /\ InLoop
    /\ \E w \in Wild : ~(Derefs(w) \subseteq Cells)
    /\ chk' = [chk EXCEPT !.pc = "fault"]
    /\ obs' = [obs EXCEPT !.ub = TRUE]
    /\ UNCHANGED <<mem, sem, mut, fault, report, msg>>
    /\ UNCHANGED <<selvars, irqvars>>

(* the caller has the result; the next call starts afresh *)
ChkReturn ==
    /\ chk.pc = "done"
    /\ chk' = ChkIdle
    /\ report' = <<>>
    /\ msg' = "none"
    /\ obs' = ObsIdle
    /\ UNCHANGED <<mem, sem, mut, fault>>
    /\ UNCHANGED <<selvars, irqvars>>

------------------------------------------------------------------------------
(* select() of fs_select.c                                                 *)
(*                                                                         *)
(* An fd_set argument is a pointer, NULL or to a set of descriptors; poll  *)
(* event masks are sets of flag names.                                     *)

MaxFd == 2

Fds == 0 .. (MaxFd - 1)

NullSet == [null |-> TRUE, bits |-> {}]

FdSets == {NullSet} \cup {[null |-> FALSE, bits |-> b] : b \in SUBSET Fds}

FD_ISSET(fd, set) == fd \in set.bits

FD_SET(fd, set) == [set EXCEPT !.bits = @ \cup {fd}]

POLLIN == "POLLIN"

POLLOUT == "POLLOUT"

POLLERR == "POLLERR"

POLLHUP == "POLLHUP"

POLLNVAL == "POLLNVAL"

PollFlags == {POLLIN, POLLOUT, POLLERR, POLLHUP, POLLNVAL}

ENOMEM == "ENOMEM"

EINVAL == "EINVAL"

EINTR == "EINTR"

EBADF == "EBADF"

NoErrno == "none"

PollErrnos == {EINTR, EBADF}

(* struct timeval *timeout: NULL, or seconds and microseconds *)
NoTimeout == [null |-> TRUE, tv_sec |-> 0, tv_usec |-> 0]

Timeouts ==
    {NoTimeout} \cup
    {[null |-> FALSE, tv_sec |-> s, tv_usec |-> u] :
        s \in {0, 2147483, 2147484, 4294968}, u \in {0, 999999}}

(* int is 32 bits wide; its arithmetic is done here in two halves of 16 bits *)
Half == 65536

(* the int whose two's complement halves are hi and lo *)
ToInt(hi, lo) == IF hi >= Half \div 2 THEN (hi - Half) * Half + lo ELSE hi * Half + lo

(* lines 87-97: tv_sec * 1000 + tv_usec / 1000, wrapped to the width of int *)
_set_timeout(timeout) ==
    IF timeout.null THEN -1
    ELSE LET sh == timeout.tv_sec \div Half
             sl == timeout.tv_sec % Half
             lo0 == ((sl * 1000) % Half) + (timeout.tv_usec \div 1000)
             hi0 == sh * 1000 + ((sl * 1000) \div Half) + (lo0 \div Half)
         IN  ToInt(hi0 % Half, lo0 % Half)

(* `set && FD_ISSET(fd, set)` *)
Wants(set, fd) == ~set.null /\ FD_ISSET(fd, set)

(* lines 245-251: the number of pollfd structures needed *)
RECURSIVE CountDesc(_, _, _, _, _)
CountDesc(fd, nfds, readfds, writefds, exceptfds) ==
    IF ~(fd < nfds) THEN 0
    ELSE (IF Wants(readfds, fd) \/ Wants(writefds, fd) \/ Wants(exceptfds, fd) THEN 1 ELSE 0)
         + CountDesc(fd + 1, nfds, readfds, writefds, exceptfds)

NullPollset == [null |-> TRUE, freed |-> FALSE, fds |-> <<>>]

(* kmm_zalloc(npfds * sizeof(struct pollfd)) *)
ZeroPollfd == [fd |-> 0, events |-> {}, revents |-> {}]

(* pollset[ndx] with the given fd and one more event; the array index is   *)
(* ndx + 1 here, and a store beyond the array is not modelled              *)
SetEntry(ps, ndx, fd, ev) ==
    IF ndx + 1 \in DOMAIN ps
    THEN [ps EXCEPT ![ndx + 1] = [@ EXCEPT !.fd = fd, !.events = @ \cup {ev}]]
    ELSE ps

(* mutant of _init_desc_list: ndx is advanced once per set holding the fd *)
RECURSIVE _init_desc_list_PerSet(_, _, _, _, _, _, _)
_init_desc_list_PerSet(fd, ndx, nfds, readfds, writefds, exceptfds, ps) ==
    IF ~(fd < nfds) THEN [ndx |-> ndx, fds |-> ps]
    ELSE LET p1 == IF Wants(readfds, fd) THEN SetEntry(ps, ndx, fd, POLLIN) ELSE ps
             n1 == IF Wants(readfds, fd) THEN ndx + 1 ELSE ndx
             p2 == IF Wants(writefds, fd) THEN SetEntry(p1, n1, fd, POLLOUT) ELSE p1
             n2 == IF Wants(writefds, fd) THEN n1 + 1 ELSE n1
             p3 == IF Wants(exceptfds, fd) THEN SetEntry(p2, n2, fd, POLLERR) ELSE p2
             n3 == IF Wants(exceptfds, fd) THEN n2 + 1 ELSE n2
         IN  _init_desc_list_PerSet(fd + 1, n3, nfds, readfds, writefds, exceptfds, p3)

(* lines 99-143: the loop from fd on, with ndx entries filled so far *)
RECURSIVE _init_desc_list(_, _, _, _, _, _, _)
_init_desc_list(fd, ndx, nfds, readfds, writefds, exceptfds, ps) ==
    IF ~(fd < nfds) THEN [ndx |-> ndx, fds |-> ps]
    ELSE LET p1 == IF Wants(readfds, fd) THEN SetEntry(ps, ndx, fd, POLLIN) ELSE ps
             p2 == IF Wants(writefds, fd) THEN SetEntry(p1, ndx, fd, POLLOUT) ELSE p1
             p3 == IF Wants(exceptfds, fd) THEN SetEntry(p2, ndx, fd, POLLERR) ELSE p2
             incr == IF Wants(readfds, fd) \/ Wants(writefds, fd) \/ Wants(exceptfds, fd)
                     THEN 1 ELSE 0
         IN  _init_desc_list(fd + 1, ndx + incr, nfds, readfds, writefds, exceptfds, p3)

(* lines 145-156: memset of every set that is given *)
_reset_fds(set) == IF set.null THEN set ELSE [set EXCEPT !.bits = {}]

(* mutant of _back_desc_list: a ready descriptor is counted once *)
RECURSIVE _back_desc_list_OncePerFd(_, _, _, _, _, _, _)
_back_desc_list_OncePerFd(ndx, ret, npfds, readfds, writefds, exceptfds, ps) ==
    IF ~(ndx < npfds)
    THEN [ret |-> ret, readfds |-> readfds, writefds |-> writefds, exceptfds |-> exceptfds]
    ELSE LET p == ps[ndx + 1]
             rd == ~readfds.null /\ p.revents \cap {POLLIN, POLLHUP} # {}
             wr == ~writefds.null /\ POLLOUT \in p.revents
             ex == ~exceptfds.null /\ POLLERR \in p.revents
         IN  _back_desc_list_OncePerFd(ndx + 1,
                 ret + (IF rd \/ wr \/ ex THEN 1 ELSE 0),
                 npfds,
                 IF rd THEN FD_SET(p.fd, readfds) ELSE readfds,
                 IF wr THEN FD_SET(p.fd, writefds) ELSE writefds,
                 IF ex THEN FD_SET(p.fd, exceptfds) ELSE exceptfds,
                 ps)

(* lines 158-197: the loop from ndx on, with ret bits set so far *)
RECURSIVE _back_desc_list(_, _, _, _, _, _, _)
_back_desc_list(ndx, ret, npfds, readfds, writefds, exceptfds, ps) ==
    IF ~(ndx < npfds)
    THEN [ret |-> ret, readfds |-> readfds, writefds |-> writefds, exceptfds |-> exceptfds]
    ELSE LET p == ps[ndx + 1]
             rd == ~readfds.null /\ p.revents \cap {POLLIN, POLLHUP} # {}
             wr == ~writefds.null /\ POLLOUT \in p.revents
             ex == ~exceptfds.null /\ POLLERR \in p.revents
         IN  _back_desc_list(ndx + 1,
                 ret + (IF rd THEN 1 ELSE 0) + (IF wr THEN 1 ELSE 0) + (IF ex THEN 1 ELSE 0),
                 npfds,
                 IF rd THEN FD_SET(p.fd, readfds) ELSE readfds,
                 IF wr THEN FD_SET(p.fd, writefds) ELSE writefds,
                 IF ex THEN FD_SET(p.fd, exceptfds) ELSE exceptfds,
                 ps)

SelIdle ==
    [pc |-> "idle", nfds |-> 0,
     readfds |-> NullSet, writefds |-> NullSet, exceptfds |-> NullSet,
     timeout |-> NoTimeout,
     entry |-> [readfds |-> NullSet, writefds |-> NullSet, exceptfds |-> NullSet],
     npfds |-> 0, ndx |-> 0, msec |-> 0, pollret |-> 0, pollerrno |-> NoErrno,
     ret |-> 0, errcode |-> NoErrno, exit |-> "none", enters |-> 0, leaves |-> 0]

(* lines 231-251: the call, enter_cancellation_point, the count of npfds *)
SelCall ==
    /\ sel.pc = "idle"
    /\ \E nfds \in 0 .. MaxFd, readfds, writefds, exceptfds \in FdSets, timeout \in Timeouts :
          sel' = [SelIdle EXCEPT !.pc = "alloc", !.nfds = nfds,
                                 !.readfds = readfds, !.writefds = writefds,
                                 !.exceptfds = exceptfds, !.timeout = timeout,
                                 !.entry = [readfds |-> readfds, writefds |-> writefds,
                                            exceptfds |-> exceptfds],
                                 !.npfds = CountDesc(0, nfds, readfds, writefds, exceptfds),
                                 !.enters = 1]
    /\ pollset' = NullPollset
    /\ UNCHANGED <<errno, heapvars, irqvars>>

(* lines 253-255: kmm_zalloc gives the array, or none is needed *)
SelAlloc ==
    /\ sel.pc = "alloc"
    /\ pollset' = IF sel.npfds > 0
                  THEN [null |-> FALSE, freed |-> FALSE,
                        fds |-> [i \in 1 .. sel.npfds |-> ZeroPollfd]]
                  ELSE NullPollset
    /\ sel' = [sel EXCEPT !.pc = "init"]
    /\ UNCHANGED <<errno, heapvars, irqvars>>

(* lines 255-260: kmm_zalloc fails *)
SelAllocFail ==
    /\ sel.pc = "alloc" /\ sel.npfds > 0
    /\ errno' = ENOMEM
    /\ sel' = [sel EXCEPT !.pc = "done", !.ret = ERROR, !.exit = "enomem",
                          !.leaves = @ + 1]
    /\ UNCHANGED <<pollset, heapvars, irqvars>>

(* lines 265-274: _init_desc_list, the test of ndx, the timeout for poll *)
SelInitDesc ==
    /\ sel.pc = "init"
    /\ LET d == _init_desc_list(0, 0, sel.nfds, sel.readfds, sel.writefds,
                                sel.exceptfds, pollset.fds)
       IN  /\ pollset' = [pollset EXCEPT !.fds = d.fds]
           /\ IF d.ndx # sel.npfds
              THEN /\ errno' = EINVAL
                   /\ sel' = [sel EXCEPT !.pc = "done", !.ndx = d.ndx, !.ret = ERROR,
                                         !.exit = "einval"]
              ELSE /\ sel' = [sel EXCEPT !.pc = "poll", !.ndx = d.ndx,
                                         !.msec = _set_timeout(sel.timeout)]
                   /\ UNCHANGED errno
    /\ UNCHANGED <<heapvars, irqvars>>

(* what poll can report for an entry: the events asked for, and always     *)
(* error, hang-up and invalid descriptor                                   *)
Reportable(p) == p.events \cup {POLLERR, POLLHUP, POLLNVAL}

(* after the call of poll the timeout is no longer used *)
Polled(s, ret) == [s EXCEPT !.pc = "polled", !.ret = ret, !.pollret = ret,
                            !.timeout = NoTimeout, !.msec = 0]

(* line 274: poll finds the entries of ready ready, each with those of the *)
(* flags that it can report, and returns their number                      *)
SelPollReady ==
    /\ sel.pc = "poll"
    /\ \E ready \in SUBSET (1 .. sel.npfds), flags \in SUBSET PollFlags :
          /\ ready # {}
          /\ \A i \in ready : flags \cap Reportable(pollset.fds[i]) # {}
          /\ pollset' = [pollset EXCEPT !.fds =
                [i \in 1 .. sel.npfds |->
                    [pollset.fds[i] EXCEPT !.revents =
                        IF i \in ready THEN flags \cap Reportable(pollset.fds[i]) ELSE {}]]]
          /\ sel' = Polled(sel, Cardinality(ready))
    /\ UNCHANGED <<errno, heapvars, irqvars>>

(* line 274: poll times out, which it does only when msec is not negative *)
SelPollTimeout ==
    /\ sel.pc = "poll" /\ sel.msec >= 0
    /\ sel' = Polled(sel, 0)
    /\ UNCHANGED <<pollset, errno, heapvars, irqvars>>

(* lines 274-278: poll fails and sets errno, which select saves *)
SelPollFail ==
    /\ sel.pc = "poll"
    /\ \E e \in PollErrnos :
          /\ errno' = e
          /\ sel' = [Polled(sel, ERROR) EXCEPT !.errcode = e, !.pollerrno = e]
    /\ UNCHANGED <<pollset, heapvars, irqvars>>

(* lines 280-298: reset the sets, convert back, free, restore errno, leave *)
SelFinish ==
    /\ sel.pc = "polled"
    /\ LET r0 == _reset_fds(sel.readfds)
           w0 == _reset_fds(sel.writefds)
           e0 == _reset_fds(sel.exceptfds)
           b == IF sel.ret > 0
                THEN _back_desc_list(0, 0, sel.npfds, r0, w0, e0, pollset.fds)
                ELSE [ret |-> sel.ret, readfds |-> r0, writefds |-> w0, exceptfds |-> e0]
       IN  /\ sel' = [sel EXCEPT !.pc = "done", !.ret = b.ret, !.exit = "return",
                                 !.readfds = b.readfds, !.writefds = b.writefds,
                                 !.exceptfds = b.exceptfds, !.leaves = @ + 1]
           /\ pollset' = IF ~pollset.null THEN [pollset EXCEPT !.freed = TRUE] ELSE pollset
           /\ errno' = IF b.ret < 0 THEN sel.errcode ELSE errno
    /\ UNCHANGED <<heapvars, irqvars>>

(* the caller has the result; the next call starts afresh *)
SelReturn ==
    /\ sel.pc = "done"
    /\ sel' = SelIdle
    /\ pollset' = NullPollset
    /\ errno' = NoErrno
    /\ UNCHANGED <<heapvars, irqvars>>

SelectNext ==
    \/ SelCall
    \/ SelAlloc
    \/ SelAllocFail
    \/ SelInitDesc
    \/ SelPollReady
    \/ SelPollTimeout
    \/ SelPollFail
    \/ SelFinish
    \/ SelReturn

------------------------------------------------------------------------------
(* Interrupt enable and disable of tiva_irq.c                              *)
(*                                                                         *)
(* A register value is the set of the bits that are 1; register addresses  *)
(* are offsets from the base of the system control space.  The model is    *)
(* that of a chip with NR_VECTORS > 95, without CONFIG_DEBUG.              *)

TIVA_IRQ_NMI == 2

TIVA_IRQ_MEMFAULT == 4

TIVA_IRQ_BUSFAULT == 5

TIVA_IRQ_USAGEFAULT == 6

TIVA_IRQ_SYSTICK == 15

TIVA_IRQ_INTERRUPTS == 16

NR_IRQS == 130

NVIC_SYSTICK_CTRL == 16

NVIC_IRQ0_31_ENABLE == 256

NVIC_IRQ32_63_ENABLE == 260

NVIC_IRQ64_95_ENABLE == 264

NVIC_IRQ96_127_ENABLE == 268

NVIC_IRQ0_31_CLEAR == 384

NVIC_SYSHCON == 3364

NVIC_SYSHCON_MEMFAULTENA == {16}

NVIC_SYSHCON_BUSFAULTENA == {17}

NVIC_SYSHCON_USGFAULTENA == {18}

NVIC_SYSTICK_CTRL_ENABLE == {0}

NVIC_ENA_OFFSET == 0

NVIC_CLRENA_OFFSET == NVIC_IRQ0_31_CLEAR - NVIC_IRQ0_31_ENABLE

(* 1 << n *)
Shl1(n) == {n}

IrqGroups == 0 .. 3

EnableRegs == {NVIC_IRQ0_31_ENABLE + 4 * g : g \in IrqGroups}

ClearRegs == {NVIC_IRQ0_31_CLEAR + 4 * g : g \in IrqGroups}

(* the interrupt controller after reset: nothing enabled *)
NvicReset == [enable |-> [g \in IrqGroups |-> {}], syshcon |-> {}, systick |-> {}]

(* the states up_enable_irq and up_disable_irq may find: other bits of the *)
(* system handler control and of the SysTick control register may be set   *)
NvicStates ==
    {[NvicReset EXCEPT !.syshcon = s, !.systick = t] : s \in {{}, {0, 1, 19}}, t \in {{}, {1, 2}}}

getreg32(n, addr) ==
    IF addr = NVIC_SYSHCON THEN n.syshcon
    ELSE IF addr = NVIC_SYSTICK_CTRL THEN n.systick
    ELSE IF addr \in EnableRegs THEN n.enable[(addr - NVIC_IRQ0_31_ENABLE) \div 4]
    ELSE IF addr \in ClearRegs THEN n.enable[(addr - NVIC_IRQ0_31_CLEAR) \div 4]
    ELSE {}

(* a write to a set-enable register enables the irqs whose bit is written  *)
(* as 1, a write to a clear-enable register disables them; the other two   *)
(* registers take the value written                                        *)
putreg32(n, val, addr) ==
    IF addr = NVIC_SYSHCON THEN [n EXCEPT !.syshcon = val]
    ELSE IF addr = NVIC_SYSTICK_CTRL THEN [n EXCEPT !.systick = val]
    ELSE IF addr \in EnableRegs
         THEN [n EXCEPT !.enable[(addr - NVIC_IRQ0_31_ENABLE) \div 4] = @ \cup val]
    ELSE IF addr \in ClearRegs
         THEN [n EXCEPT !.enable[(addr - NVIC_IRQ0_31_CLEAR) \div 4] = @ \ val]
    ELSE n

IrqInfo(ret, regaddr, bit) == [ret |-> ret, regaddr |-> regaddr, bit |-> bit]

(* mutant of tiva_irqinfo: every group uses the register of the first *)
tiva_irqinfo_OneGroup(irq, offset) ==
    IF irq >= TIVA_IRQ_INTERRUPTS
    THEN IF irq >= NR_IRQS THEN IrqInfo(ERROR, 0, {})
         ELSE IF irq < TIVA_IRQ_INTERRUPTS + 128
         THEN IrqInfo(OK, NVIC_IRQ0_31_ENABLE + offset,
                      Shl1((irq - TIVA_IRQ_INTERRUPTS) % 32))
         ELSE IrqInfo(ERROR, 0, {})
    ELSE IF irq = TIVA_IRQ_MEMFAULT THEN IrqInfo(OK, NVIC_SYSHCON, NVIC_SYSHCON_MEMFAULTENA)
    ELSE IF irq = TIVA_IRQ_BUSFAULT THEN IrqInfo(OK, NVIC_SYSHCON, NVIC_SYSHCON_BUSFAULTENA)
    ELSE IF irq = TIVA_IRQ_USAGEFAULT THEN IrqInfo(OK, NVIC_SYSHCON, NVIC_SYSHCON_USGFAULTENA)
    ELSE IF irq = TIVA_IRQ_SYSTICK THEN IrqInfo(OK, NVIC_SYSTICK_CTRL, NVIC_SYSTICK_CTRL_ENABLE)
    ELSE IrqInfo(ERROR, 0, {})

(* lines 260-317 *)
tiva_irqinfo(irq, offset) ==
    IF irq >= TIVA_IRQ_INTERRUPTS
    THEN IF irq >= NR_IRQS THEN IrqInfo(ERROR, 0, {})
         ELSE IF irq < TIVA_IRQ_INTERRUPTS + 32
         THEN IrqInfo(OK, NVIC_IRQ0_31_ENABLE + offset, Shl1(irq - TIVA_IRQ_INTERRUPTS))
         ELSE IF irq < TIVA_IRQ_INTERRUPTS + 64
         THEN IrqInfo(OK, NVIC_IRQ32_63_ENABLE + offset, Shl1(irq - TIVA_IRQ_INTERRUPTS - 32))
         ELSE IF irq < TIVA_IRQ_INTERRUPTS + 96
         THEN IrqInfo(OK, NVIC_IRQ64_95_ENABLE + offset, Shl1(irq - TIVA_IRQ_INTERRUPTS - 64))
         ELSE IF irq < TIVA_IRQ_INTERRUPTS + 128
         THEN IrqInfo(OK, NVIC_IRQ96_127_ENABLE + offset, Shl1(irq - TIVA_IRQ_INTERRUPTS - 96))
         ELSE IrqInfo(ERROR, 0, {})
    ELSE IF irq = TIVA_IRQ_MEMFAULT THEN IrqInfo(OK, NVIC_SYSHCON, NVIC_SYSHCON_MEMFAULTENA)
    ELSE IF irq = TIVA_IRQ_BUSFAULT THEN IrqInfo(OK, NVIC_SYSHCON, NVIC_SYSHCON_BUSFAULTENA)
    ELSE IF irq = TIVA_IRQ_USAGEFAULT THEN IrqInfo(OK, NVIC_SYSHCON, NVIC_SYSHCON_USGFAULTENA)
    ELSE IF irq = TIVA_IRQ_SYSTICK THEN IrqInfo(OK, NVIC_SYSTICK_CTRL, NVIC_SYSTICK_CTRL_ENABLE)
    ELSE IrqInfo(ERROR, 0, {})

(* the irq numbers the calls are made with *)
IrqInputs ==
    {-1, TIVA_IRQ_NMI, TIVA_IRQ_MEMFAULT, TIVA_IRQ_BUSFAULT, TIVA_IRQ_USAGEFAULT, 11,
     TIVA_IRQ_SYSTICK, TIVA_IRQ_INTERRUPTS, 47, 48, 111, 112, NR_IRQS - 1, NR_IRQS, 144}

IrqIdle == [op |-> "none", irq |-> 0, writes |-> <<>>]

(* the registers after the writes of a call *)
RECURSIVE AfterWrites(_, _)
AfterWrites(n, writes) ==
    IF writes = <<>> THEN n
    ELSE AfterWrites(putreg32(n, Head(writes).val, Head(writes).addr), Tail(writes))

(* lines 452-475 *)
up_disable_irq ==
    /\ \E irq \in IrqInputs :
          LET info == tiva_irqinfo(irq, NVIC_CLRENA_OFFSET)
              writes ==
                  IF info.ret # OK THEN <<>>
                  ELSE IF irq >= TIVA_IRQ_INTERRUPTS
                       THEN <<[addr |-> info.regaddr, val |-> info.bit]>>
                       ELSE <<[addr |-> info.regaddr,
                               val |-> getreg32(nvic, info.regaddr) \ info.bit]>>
          IN  /\ nvic' = AfterWrites(nvic, writes)
              /\ irqcall' = [op |-> "disable", irq |-> irq, writes |-> writes]
    /\ UNCHANGED <<heapvars, selvars>>

(* lines 485-508 *)
up_enable_irq ==
    /\ \E irq \in IrqInputs :
          LET info == tiva_irqinfo(irq, NVIC_ENA_OFFSET)
              writes ==
                  IF info.ret # OK THEN <<>>
                  ELSE IF irq >= TIVA_IRQ_INTERRUPTS
                       THEN <<[addr |-> info.regaddr, val |-> info.bit]>>
                       ELSE <<[addr |-> info.regaddr,
                               val |-> getreg32(nvic, info.regaddr) \cup info.bit]>>
          IN  /\ nvic' = AfterWrites(nvic, writes)
              /\ irqcall' = [op |-> "enable", irq |-> irq, writes |-> writes]
    /\ UNCHANGED <<heapvars, selvars>>

IrqNext ==
    \/ up_enable_irq
    \/ up_disable_irq

------------------------------------------------------------------------------
(* The specifications *)

HeapInit ==
    /\ mem = InitMem
    /\ sem = [holder |-> NOHOLDER, counts |-> 0]
    /\ mut = MutIdle
    /\ fault = NoFault
    /\ chk = ChkIdle
    /\ report = <<>>
    /\ msg = "none"
    /\ obs = ObsIdle

SelInit ==
    /\ sel = SelIdle
    /\ pollset = NullPollset
    /\ errno = NoErrno

Init ==
    /\ HeapInit
    /\ SelInit
    /\ nvic = NvicReset
    /\ irqcall = IrqIdle

(* the interrupt controller as the calls may find it *)
IrqInit ==
    /\ HeapInit
    /\ SelInit
    /\ nvic \in NvicStates
    /\ irqcall = IrqIdle

ChkStep ==
    \/ ChkEnterRegion
    \/ ChkReturnOk
    \/ ChkLeaveRegion
    \/ ChkAdvance
    \/ ChkFailBack
    \/ ChkFailFwd
    \/ ChkFailBlink
    \/ ChkFailFlink

Next ==
    \/ \E t \in Tasks, sz \in ChunkSizes : MallocTake(t, sz)
    \/ MallocSearch
    \/ MallocSplit
    \/ MallocFixNext
    \/ MallocMark
    \/ \E t \in Tasks, n \in HeapCells : FreeTake(t, n)
    \/ FreeClear
    \/ FreeMergeNext
    \/ FreeMergePrev
    \/ FreeAdd
    \/ \E a \in FaultCells, i \in 1..2, v \in Words : Corrupt(a, i, v)
    \/ \E irq \in BOOLEAN : ChkCall(irq)
    \/ ChkStep
    \/ ChkFault
    \/ ChkReturn

Spec == Init /\ [][Next]_vars

SelectSpec == Init /\ [][SelectNext]_vars

IrqSpec == IrqInit /\ [][IrqNext]_vars

------------------------------------------------------------------------------
(* Properties of the checker                                               *)

Returned == chk.pc = "done"

Boundary == {"back", "fwd"}

FreeList == {"blink", "flink"}

(* C1 as stated: a free-list violation returns a value distinct from the   *)
(* value returned for a boundary-tag violation (which is ERROR, see        *)
(* C1_OneFailureCode).                                                     *)
C1_DistinctCodes == (Returned /\ msg \in FreeList) => chk.result # ERROR

(* C1, amended: the call returns OK when it reports nothing and the single *)
(* failure code ERROR for each of the four violation classes; the class is *)
(* told apart by the printed report only.                                  *)
C1_OneFailureCode ==
    Returned =>
        /\ chk.result \in {OK, ERROR}
        /\ msg = "none" <=> chk.result = OK
        /\ msg \in Boundary \cup FreeList <=> chk.result = ERROR

C1_Witness == Returned /\ msg = "blink" /\ chk.result = ERROR

(* a step of the checker call, from entry to return *)
CheckerStep == chk' # chk /\ chk.pc \notin {"idle", "done"}

(* C2: no step of the checker changes heap memory (node headers, free      *)
(* list); the only thing a step changes besides the checker's locals is    *)
(* the lock, which it takes when free and gives back when it holds it, and *)
(* on return the checker has given the lock as often as it took it and     *)
(* does not hold it.                                                       *)
C2_ReadOnly ==
    /\ [](Returned => sem.holder # CHK /\ obs.takes = obs.gives)
    /\ [][CheckerStep =>
            /\ mem' = mem
            /\ \/ sem' = sem
               \/ sem.holder = NOHOLDER /\ sem' = [holder |-> CHK, counts |-> 1]
               \/ sem.holder = CHK /\ sem' = [holder |-> NOHOLDER, counts |-> 0]]_vars

C2_Witness == Returned /\ fault # NoFault /\ obs.takes = 2 /\ chk.result = ERROR

(* C3 as stated: dump_node is never handed the absent predecessor, and the *)
(* call does not fault.                                                    *)
C3_DumpsExistingNodes ==
    /\ chk.pc # "fault"
    /\ \A i \in DOMAIN report : report[i][1] # NULL

(* C4: a call in interrupt context never takes or gives the lock, and is   *)
(* never kept from entering a region, whoever holds the lock.              *)
C4_IrqNeverLocks ==
    (chk.irq /\ chk.pc # "idle") =>
        /\ obs.takes = 0 /\ obs.gives = 0
        /\ sem.holder # CHK
        /\ (chk.pc = "region" /\ chk.region < mm_nregions) => ENABLED ChkEnterRegion

C4_Witness ==
    /\ chk.irq /\ Returned /\ chk.result = OK /\ chk.region = mm_nregions
    /\ sem.holder \in Tasks

(* C5: a call in task context reads node headers only while it holds the   *)
(* lock, holds it once (never recursively) throughout the walk of a        *)
(* region, has taken it once per region entered and given it once per      *)
(* region left, and does not hold it between regions or after it returned. *)
C5_TaskHoldsLock ==
    (~chk.irq /\ chk.pc # "idle") =>
        /\ ~obs.unlocked
        /\ chk.pc \in {"loop", "fault"} =>
              /\ sem = [holder |-> CHK, counts |-> 1]
              /\ obs.takes = chk.region + 1 /\ obs.gives = chk.region
        /\ chk.pc = "region" =>
              /\ sem.holder # CHK
              /\ obs.takes = chk.region /\ obs.gives = chk.region
        /\ Returned =>
              /\ sem.holder # CHK
              /\ obs.takes = obs.gives
              /\ chk.result = OK => obs.takes = mm_nregions
              /\ chk.result = ERROR => obs.takes = chk.region + 1

C5_Witness == ~chk.irq /\ Returned /\ chk.result = ERROR /\ chk.region = 1 /\ obs.takes = 2

------------------------------------------------------------------------------
(* The structural invariants, read off the heap as it is                   *)

Succ(n) == Add(n, Size(n, 0))

(* the nodes reached from the first node of region r by advancing by size  *)
(* while below the region's end                                            *)
RECURSIVE Walk(_, _, _)
Walk(r, n, seen) ==
    IF ~(n < mm_heapend(r)) \/ n \in seen THEN seen
    ELSE Walk(r, Succ(n), seen \cup {n})

NodesOf(r) == Walk(r, mm_heapstart(r), {})

TagOk(n) == Size(n, 0) = MM_PREV_NODE_SIZE(Succ(n), 0)

BlinkOk(n) == Blink(n, 0) = NULL \/ Flink(Blink(n, 0), 0) = n

FlinkOk(n) == Flink(n, 0) = NULL \/ Blink(Flink(n, 0), 0) = n

NodeOk(n) == TagOk(n) /\ (IS_FREE_NODE(n, 0) => BlinkOk(n) /\ FlinkOk(n))

RegionOk(r) == \A n \in NodesOf(r) : NodeOk(n)

HeapOk == \A r \in Regions : RegionOk(r)

(* the call saw one heap: nothing was written during it, and it read no    *)
(* address outside the memory                                              *)
StaticWalk == ~obs.dirty /\ ~obs.ub

(* C6: while no word has been overwritten, the heap passes at every point  *)
(* where no task holds the lock, and a checker call in task context, which *)
(* walks each region under the lock while tasks go on allocating and       *)
(* freeing between its regions, never faults and returns OK.               *)
C6_QuiescentHeapPasses ==
    fault = NoFault =>
        /\ sem.holder \notin Tasks => HeapOk
        /\ ~chk.irq => chk.pc # "fault"
        /\ (~chk.irq /\ Returned) => chk.result = OK /\ msg = "none"

C6_Witness ==
    /\ fault = NoFault /\ ~chk.irq /\ Returned /\ chk.result = OK
    /\ obs.dirty /\ Allocated(mem) # {}

(* C7: on the heap as initialised, with no allocator call in progress, a   *)
(* checker call in either context is never blocked, does not fault, moves  *)
(* strictly forward through the regions with every step, and returns OK    *)
(* without a report.                                                       *)
Untouched == mem = InitMem /\ mut.pc = "idle" /\ ~obs.dirty

RankMax == (mm_nregions + 1) * WordMod

Rank ==
    CASE chk.pc = "region" -> chk.region * WordMod
      [] chk.pc = "loop" -> chk.region * WordMod + chk.node
      [] OTHER -> RankMax

C7_StableOnInitialHeap ==
    /\ [](Untouched =>
            /\ chk.pc # "fault"
            /\ chk.pc \in {"region", "loop"} => ENABLED ChkStep
            /\ Returned => chk.result = OK /\ msg = "none" /\ report = <<>>)
    /\ [][(Untouched /\ CheckerStep) => (Rank < Rank' /\ Rank' <= RankMax)]_vars

C7_Witness ==
    Untouched /\ Returned /\ chk.result = OK /\ chk.region = mm_nregions

(* C8: a call that saw one heap returns OK exactly when every node of      *)
(* every region passes the boundary-tag test against its successor and,    *)
(* when free, both free-list tests; otherwise it returns ERROR.            *)
C8_OkIffEveryRegionPasses ==
    (Returned /\ StaticWalk) =>
        /\ chk.result = OK <=> HeapOk
        /\ chk.result # OK => chk.result = ERROR

C8_Witness ==
    /\ Returned /\ StaticWalk /\ chk.result = ERROR
    /\ chk.region = 1 /\ RegionOk(0) /\ ~RegionOk(1)

(* C9: a call that saw one heap and returns ERROR stopped at the first     *)
(* violation in walk order: in the first region that does not pass, at its *)
(* first node that does not pass, with the first test that node fails      *)
(* (successor tag, then blink, then flink); it entered no later region and *)
(* dumped no node beyond prev, node and next.                              *)
FirstBadRegion == CHOOSE r \in Regions : ~RegionOk(r) /\ \A q \in 0 .. (r - 1) : RegionOk(q)

RECURSIVE FirstBad(_, _, _)
FirstBad(r, n, fuel) ==
    IF fuel = 0 \/ ~NodeOk(n) THEN n ELSE FirstBad(r, Succ(n), fuel - 1)

FirstTest(n) ==
    IF ~TagOk(n) THEN "fwd" ELSE IF ~BlinkOk(n) THEN "blink" ELSE "flink"

C9_FailFast ==
    (Returned /\ StaticWalk /\ chk.result = ERROR) =>
        /\ ~HeapOk
        /\ chk.region = FirstBadRegion
        /\ chk.node = FirstBad(chk.region, mm_heapstart(chk.region), MemTop)
        /\ msg = FirstTest(chk.node)
        /\ ~chk.irq => obs.takes = chk.region + 1
        /\ \A i \in DOMAIN report : report[i][1] \in {chk.prev, chk.node, chk.next}

C9_Witness ==
    /\ Returned /\ StaticWalk /\ chk.result = ERROR
    /\ chk.region = 0 /\ ~RegionOk(1)

(* Boundary-tag fault injection: A and B are adjacent allocated chunks of   *)
(* region r, A below B, and the preceding word of B has been overwritten    *)
(* with a word whose size part is not the size of A.                        *)
TagFault(r, A, B) ==
    /\ fault.addr = B /\ fault.word = 2
    /\ {A, B} \subseteq NodesOf(r) \ {mm_heapstart(r)}
    /\ Succ(A) = B
    /\ IS_ALLOCATED_NODE(A, 0)
    /\ fault.old = MM_ALLOC_BIT + Size(A, 0)
    /\ fault.val % MM_ALLOC_BIT # Size(A, 0)

PredOf(r, A) == CHOOSE P \in NodesOf(r) : Succ(P) = A

(* C10 as stated: the call returns the boundary failure and reports the    *)
(* pair (A overflowed, B corrupted) and no other node.                     *)
C10_ExactlyThePair ==
    \A r \in Regions, A, B \in HeapCells :
        (TagFault(r, A, B) /\ Returned) =>
            /\ chk.result = ERROR /\ msg \in Boundary
            /\ report = <<dump_node(A, TYPE_OVERFLOWED), dump_node(B, TYPE_CORRUPTED)>>

(* C10, amended: the call does not fault and returns ERROR from the test   *)
(* of A against its successor, and reports two candidate pairs: first the  *)
(* predecessor of A as overflowed with A as corrupted, then A as           *)
(* overflowed with B as corrupted.                                         *)
C10_BothCandidatePairs ==
    \A r \in Regions, A, B \in HeapCells :
        TagFault(r, A, B) =>
            /\ chk.pc # "fault"
            /\ Returned =>
                  /\ chk.result = ERROR /\ msg = "fwd"
                  /\ chk.region = r /\ chk.node = A /\ chk.next = B
                  /\ report = <<dump_node(PredOf(r, A), TYPE_OVERFLOWED),
                                dump_node(A, TYPE_CORRUPTED),
                                dump_node(A, TYPE_OVERFLOWED),
                                dump_node(B, TYPE_CORRUPTED)>>

C10_Witness ==
    \E r \in Regions, A, B \in HeapCells :
        TagFault(r, A, B) /\ Returned /\ IS_ALLOCATED_NODE(B, 0)

(* Free-list fault injection: F is a free chunk on the free list, B is its  *)
(* backward neighbour (a free chunk or the head of the list), and the flink *)
(* of B has been overwritten to refer to a node X other than F.             *)
SentinelNodes == {mm_heapstart(r) : r \in Regions} \cup {mm_heapend(r) : r \in Regions}

AllNodes == UNION {NodesOf(r) : r \in Regions} \cup SentinelNodes \cup {mm_nodelist}

ListFault(F, B, X) ==
    /\ fault.addr = B + 1 /\ fault.word = 1
    /\ fault.old = F /\ fault.val = X
    /\ F \in AllNodes \ (SentinelNodes \cup {mm_nodelist})
    /\ IS_FREE_NODE(F, 0)
    /\ Blink(F, 0) = B
    /\ X \in AllNodes \ {F}

ListReport == <<dump_node(chk.prev, TYPE_OVERFLOWED), dump_node(chk.node, TYPE_CORRUPTED)>>

(* C11 as stated: the call returns failure and the node it reports as      *)
(* inconsistent is F, wherever the backward neighbour of F lies.           *)
C11_IdentifiesF ==
    \A F \in HeapCells, B, X \in Cells :
        (ListFault(F, B, X) /\ Returned) =>
            /\ chk.result = ERROR /\ msg \in FreeList
            /\ chk.node = F /\ report = ListReport

(* C11, amended: the call returns failure from a free-list test at the     *)
(* first of F and its backward neighbour B that the walk reaches: at F,    *)
(* by the blink test, when B is the head of the list or is walked after F; *)
(* at B, by the flink test, when B is a free chunk walked before F, unless *)
(* the word at the blink position of X happens to be B, and then at F.     *)
C11_FirstOfPairWalked ==
    \A F \in HeapCells, B, X \in Cells :
        (ListFault(F, B, X) /\ Returned) =>
            /\ chk.result = ERROR /\ msg \in FreeList
            /\ report = ListReport
            /\ IF B = mm_nodelist \/ F < B
               THEN chk.node = F /\ msg = "blink"
               ELSE IF Add(X, 1) \in Cells /\ Blink(X, 0) # B
               THEN chk.node = B /\ msg = "flink"
               ELSE \/ chk.node = B /\ msg = "flink"
                    \/ chk.node = F /\ msg = "blink"

C11_Witness ==
    \E F \in HeapCells, B, X \in Cells :
        /\ ListFault(F, B, X) /\ Returned
        /\ B # mm_nodelist /\ B < F /\ chk.node = B /\ msg = "flink"
        /\ Allocated(mem) # {}

------------------------------------------------------------------------------
(* Properties of the allocator                                             *)

RECURSIVE SumSize(_)
SumSize(S) ==
    IF S = {} THEN 0
    ELSE LET n == CHOOSE x \in S : TRUE IN Size(n, 0) + SumSize(S \ {n})

(* the nodes of region r tile it: each has a size, none runs over another  *)
(* or over the end sentinel, the last one ends at the end sentinel, and    *)
(* the sizes, the end sentinel's included, add up to the region's span     *)
Conserved(r) ==
    LET ns == NodesOf(r)
    IN  /\ \A n \in ns : Size(n, 0) > 0 /\ n + Size(n, 0) <= mm_heapend(r)
        /\ \E n \in ns : n + Size(n, 0) = mm_heapend(r)
        /\ \A n, m \in ns : n < m => n + Size(n, 0) <= m
        /\ SumSize(ns \cup {mm_heapend(r)}) = RegionSize(r)

(* C12: whenever no task holds the lock (every allocate and free has       *)
(* released it), the nodes of each region tile the region: their sizes add *)
(* up to the region's span and the walk by size from the first node ends   *)
(* exactly at the end sentinel, without gap or overlap.                    *)
C12_Conservation ==
    (fault = NoFault /\ sem.holder \notin Tasks) => \A r \in Regions : Conserved(r)

C12_Witness ==
    /\ fault = NoFault /\ sem.holder \notin Tasks
    /\ Cardinality(NodesOf(0)) >= 3
    /\ \E n \in NodesOf(0) \ {mm_heapstart(0)} : IS_FREE_NODE(n, 0)
    /\ \E n \in NodesOf(0) \ {mm_heapstart(0)} : IS_ALLOCATED_NODE(n, 0)

(* C13: when the free of the only allocated chunk completes, the heap is   *)
(* again the heap as initialised: per region one free node of the initial  *)
(* size at the initial address between the sentinels, with the initial     *)
(* boundary tags and free-list links.                                      *)
C13_FreeRestoresInitialHeap ==
    [][(fault = NoFault /\ mut.pc = "f_add" /\ mut'.pc = "idle" /\ Allocated(mem) = {})
          => mem' = InitMem]_vars

C13_Witness ==
    /\ fault = NoFault /\ mut.pc = "f_add" /\ Allocated(mem) = {}
    /\ mut.node = mm_heapstart(0) + SIZEOF_MM_ALLOCNODE
    /\ mem # InitMem

------------------------------------------------------------------------------
(* Termination and the backward test of the checker                        *)

(* C16 as stated: whatever the heap holds, the walk of a region comes to   *)
(* its end: in every state of the loop some step of the checker leads to   *)
(* another state of the walk (the next node, the end of the region or a    *)
(* failure return), so that the loop is never in a state that its only     *)
(* possible step repeats for ever.                                         *)
C16_WalkNeverStuck ==
    chk.pc = "loop" => ENABLED (ChkStep /\ chk' # chk)

(* C17: the backward test fires only in a call in interrupt context during *)
(* which the heap was written, never in a call in task context; a call     *)
(* that saw one heap reports a size / preceding mismatch from the forward  *)
(* test at the predecessor, with both candidate pairs.                     *)
C17_BackwardOnlyWhenRaced ==
    /\ (Returned /\ msg = "back") => chk.irq /\ obs.dirty
    /\ (Returned /\ StaticWalk /\ msg \in Boundary) =>
          /\ msg = "fwd"
          /\ ~TagOk(chk.node)
          /\ Len(report) = 4

C17_Witness == Returned /\ msg = "back" /\ chk.irq /\ obs.dirty /\ ~obs.ub

------------------------------------------------------------------------------
(* Properties of select()                                                  *)

(* select() returned by its last return statement, after poll *)
SelReturned == sel.pc = "done" /\ sel.exit = "return"

(* the descriptors for which poll reported one of the flags *)
ReadyWith(flags) ==
    {pollset.fds[i].fd : i \in {j \in DOMAIN pollset.fds : pollset.fds[j].revents \cap flags # {}}}

OutputBits == Cardinality(sel.readfds.bits) + Cardinality(sel.writefds.bits)
              + Cardinality(sel.exceptfds.bits)

OutputEmpty == sel.readfds.bits = {} /\ sel.writefds.bits = {} /\ sel.exceptfds.bits = {}

(* C14: when poll reports ready descriptors, select returns the number of  *)
(* bits set in the three sets together, the read set holding the           *)
(* descriptors reported POLLIN or POLLHUP, the write set those reported    *)
(* POLLOUT, the except set those reported POLLERR (a NULL set holding      *)
(* none); when poll times out select returns 0, when poll fails it returns *)
(* -1 with the errno of poll, and in both cases the sets are empty.        *)
C14_CountsReadyBits ==
    SelReturned =>
        /\ sel.pollret > 0 =>
              /\ sel.ret = OutputBits
              /\ sel.readfds.bits = (IF sel.readfds.null THEN {} ELSE ReadyWith({POLLIN, POLLHUP}))
              /\ sel.writefds.bits = (IF sel.writefds.null THEN {} ELSE ReadyWith({POLLOUT}))
              /\ sel.exceptfds.bits = (IF sel.exceptfds.null THEN {} ELSE ReadyWith({POLLERR}))
        /\ sel.pollret = 0 => sel.ret = 0 /\ OutputEmpty
        /\ sel.pollret < 0 => sel.ret = ERROR /\ errno = sel.pollerrno /\ OutputEmpty

C14_Witness ==
    /\ SelReturned /\ sel.pollret = 1 /\ sel.ret = 3
    /\ \E fd \in Fds : fd \in sel.readfds.bits \cap sel.writefds.bits \cap sel.exceptfds.bits

(* C15 as stated: the timeout passed to poll is negative exactly when the  *)
(* timeout pointer is NULL; a timeout that is given, with tv_sec >= 0 and  *)
(* 0 <= tv_usec < 1000000, is passed as a value that is not negative.      *)
C15_FiniteTimeoutStaysFinite ==
    sel.pc = "poll" => (sel.msec < 0 <=> sel.timeout.null)

(* C18 as stated: after select returned a positive count, each set holds   *)
(* only descriptors that the caller had put into that same set.            *)
C18_OutputWithinInput ==
    (SelReturned /\ sel.ret > 0) =>
        /\ sel.readfds.bits \subseteq sel.entry.readfds.bits
        /\ sel.writefds.bits \subseteq sel.entry.writefds.bits
        /\ sel.exceptfds.bits \subseteq sel.entry.exceptfds.bits

(* the descriptors below nfds that the caller put into some set *)
Registered ==
    {fd \in Fds : /\ fd < sel.nfds
                  /\ \/ Wants(sel.entry.readfds, fd)
                     \/ Wants(sel.entry.writefds, fd)
                     \/ Wants(sel.entry.exceptfds, fd)}

(* C19: _init_desc_list fills exactly the npfds entries counted, one for   *)
(* each registered descriptor and no two for the same; select never takes  *)
(* the EINVAL return; and when select has returned, the pollfd array has   *)
(* been freed or was never allocated and leave_cancellation_point has been *)
(* called once for the one enter_cancellation_point.                       *)
C19_EntriesMatchCount ==
    /\ sel.exit # "einval"
    /\ sel.pc \in {"poll", "polled"} \/ SelReturned =>
          /\ sel.ndx = sel.npfds /\ Len(pollset.fds) = sel.npfds
          /\ sel.npfds = Cardinality(Registered)
          /\ {pollset.fds[i].fd : i \in DOMAIN pollset.fds} = Registered
          /\ \A i, j \in DOMAIN pollset.fds : pollset.fds[i].fd = pollset.fds[j].fd => i = j
          /\ pollset.null <=> sel.npfds = 0
    /\ sel.pc \in {"alloc", "init", "poll", "polled"} =>
          sel.enters = 1 /\ sel.leaves = 0 /\ ~pollset.freed
    /\ sel.pc = "done" =>
          /\ sel.enters = 1 /\ sel.leaves = 1
          /\ pollset.null \/ pollset.freed

C19_Witness ==
    /\ SelReturned /\ sel.npfds = MaxFd /\ pollset.freed
    /\ \E i \in DOMAIN pollset.fds : Cardinality(pollset.fds[i].events) >= 2

------------------------------------------------------------------------------
(* Properties of up_enable_irq and up_disable_irq                          *)

ExternalIrq(irq) == irq >= TIVA_IRQ_INTERRUPTS /\ irq < NR_IRQS

FaultIrq(irq) == irq \in {TIVA_IRQ_MEMFAULT, TIVA_IRQ_BUSFAULT, TIVA_IRQ_USAGEFAULT}

SupportedIrq(irq) == ExternalIrq(irq) \/ FaultIrq(irq) \/ irq = TIVA_IRQ_SYSTICK

(* the 32-irq group of an external irq and its bit in the group *)
GroupOf(irq) == (irq - TIVA_IRQ_INTERRUPTS) \div 32

BitOf(irq) == (irq - TIVA_IRQ_INTERRUPTS) % 32

(* the enable bit of a fault exception in the system handler control *)
FaultBit(irq) == irq + 12

IrqEnabled(n, irq) ==
    IF ExternalIrq(irq) THEN BitOf(irq) \in n.enable[GroupOf(irq)]
    ELSE IF FaultIrq(irq) THEN FaultBit(irq) \in n.syshcon
    ELSE irq = TIVA_IRQ_SYSTICK /\ 0 \in n.systick

(* the registers with the enable state of one irq set to on *)
WithIrq(n, irq, on) ==
    IF ExternalIrq(irq)
    THEN [n EXCEPT !.enable[GroupOf(irq)] = IF on THEN @ \cup {BitOf(irq)} ELSE @ \ {BitOf(irq)}]
    ELSE IF FaultIrq(irq)
    THEN [n EXCEPT !.syshcon = IF on THEN @ \cup {FaultBit(irq)} ELSE @ \ {FaultBit(irq)}]
    ELSE IF irq = TIVA_IRQ_SYSTICK
    THEN [n EXCEPT !.systick = IF on THEN @ \cup {0} ELSE @ \ {0}]
    ELSE n

(* the writes the call irqcall' is expected to make, from the registers n *)
ExpectedWrites(n, op, irq) ==
    IF ExternalIrq(irq)
    THEN <<[addr |-> (IF op = "enable" THEN NVIC_IRQ0_31_ENABLE ELSE NVIC_IRQ0_31_CLEAR)
                         + 4 * GroupOf(irq),
            val |-> {BitOf(irq)}]>>
    ELSE IF FaultIrq(irq)
    THEN <<[addr |-> NVIC_SYSHCON, val |-> WithIrq(n, irq, op = "enable").syshcon]>>
    ELSE IF irq = TIVA_IRQ_SYSTICK
    THEN <<[addr |-> NVIC_SYSTICK_CTRL, val |-> WithIrq(n, irq, op = "enable").systick]>>
    ELSE <<>>

(* C20: a call of up_enable_irq or up_disable_irq changes the enable state *)
(* of the named irq and nothing else: an external irq has its single bit   *)
(* written to the set-enable or clear-enable register of its group, a      *)
(* fault exception or SysTick has its enable bit changed by a read-modify- *)
(* write that keeps the other bits of the register, any other irq number   *)
(* makes no write; distinct supported irqs have distinct registers or      *)
(* bits; and a disable, whatever preceded it, leaves the irq disabled.     *)
C20_OnlyNamedIrqChanges ==
    /\ [](\A i, j \in IrqInputs : \A off \in {NVIC_ENA_OFFSET, NVIC_CLRENA_OFFSET} :
             SupportedIrq(i) /\ SupportedIrq(j) /\ i # j =>
                 /\ tiva_irqinfo(i, off).ret = OK
                 /\ <<tiva_irqinfo(i, off).regaddr, tiva_irqinfo(i, off).bit>>
                        # <<tiva_irqinfo(j, off).regaddr, tiva_irqinfo(j, off).bit>>)
    /\ [][irqcall'.op # "none" =>
             /\ irqcall'.writes = ExpectedWrites(nvic, irqcall'.op, irqcall'.irq)
             /\ nvic' = WithIrq(nvic, irqcall'.irq, irqcall'.op = "enable")
             /\ SupportedIrq(irqcall'.irq) =>
                    (IrqEnabled(nvic', irqcall'.irq) <=> irqcall'.op = "enable")
             /\ \A other \in IrqInputs \ {irqcall'.irq} :
                    IrqEnabled(nvic', other) <=> IrqEnabled(nvic, other)]_vars

(* an irq of the second group is disabled after it was enabled, with an    *)
(* irq of the first and one of the same group, a fault and other bits of   *)
(* the system handler control still set                                    *)
C20_Witness ==
    /\ irqcall.op = "disable" /\ irqcall.irq = 48
    /\ Len(irqcall.writes) = 1
    /\ ~IrqEnabled(nvic, 48)
    /\ IrqEnabled(nvic, 47) /\ IrqEnabled(nvic, 49 + 62) /\ IrqEnabled(nvic, TIVA_IRQ_BUSFAULT)
    /\ 19 \in nvic.syshcon
    /\ IrqEnabled(nvic, NR_IRQS - 1)

====
